---- MODULE Spec2Model ----
(***************************************************************************)
(* A model of src/fpl.py, the FPL Insights Dashboard script.               *)
(*                                                                         *)
(* The script is run top to bottom on every render.  The state is the two  *)
(* memo entries of the @st.cache_data functions, the number of HTTP GETs   *)
(* the process has issued, the script's globals (players, teams, fixtures, *)
(* the widget values, filtered_players, the tables of the six tabs) and    *)
(* the position of the render in the script (pc).                          *)
(*                                                                         *)
(* Numbers are exact rationals with the IEEE special values the dataframe  *)
(* library produces (NaN for a missing value, +-inf for x/0); rounding     *)
(* error of binary floating point is not modelled.                         *)
(***************************************************************************)
EXTENDS Integers, Sequences, FiniteSets, TLC

VARIABLES
  cache_fpl,          \* memo entry of fetch_fpl_data
  cache_fixtures,     \* memo entry of fetch_fixtures
  http_fpl,           \* GETs of the bootstrap endpoint issued by this process
  http_fixtures,      \* GETs of the fixtures endpoint issued by this process
  served_fpl,         \* how the render's call of fetch_fpl_data was served
  served_fixtures,    \* how the render's call of fetch_fixtures was served
  pc,                 \* position of the render in the script
  error,              \* the exception that ended the render, or "none"
  players, teams, fixtures,
  selected_positions, selected_teams, max_price,
  filtered_players,
  warning,            \* st.warning of line 62 was shown
  top_captains, top_differentials, top_set_piece, top_value_picks,
  scatter,            \* the frame handed to px.scatter on tab 5
  team_goals, team_ratings_display,
  styled_table        \* the rows written to the page by line 239

vars == << cache_fpl, cache_fixtures, http_fpl, http_fixtures, served_fpl,
           served_fixtures, pc, error, players, teams, fixtures,
           selected_positions, selected_teams, max_price, filtered_players,
           warning, top_captains, top_differentials, top_set_piece,
           top_value_picks, scatter, team_goals, team_ratings_display,
           styled_table >>

scriptVars == << players, teams, fixtures, selected_positions, selected_teams,
                 max_price, filtered_players, warning, top_captains,
                 top_differentials, top_set_piece, top_value_picks, scatter,
                 team_goals, team_ratings_display, styled_table >>

-----------------------------------------------------------------------------
(* Bounds of the model                                                     *)

MaxPlayers == 11      \* rows of the largest bootstrap response
MaxOffset == 1        \* first roster entry of a response is 1 + 0..MaxOffset
NumTeams == 3         \* rows of the Team table
MaxFixtures == 3      \* rows of the largest fixtures response
MaxGets == 2          \* GETs per endpoint a process may issue (failures included)

(* Program constants                                                       *)

TopK == 10            \* nlargest(10, ...)

-----------------------------------------------------------------------------
(* Floating point values: a rational n/d (d > 0), NaN, or +-inf (n = +-1)  *)

Num(n, d) == [k |-> "num", n |-> n, d |-> d]
Whole(n) == Num(n, 1)
NaN == [k |-> "nan", n |-> 0, d |-> 1]
Inf(s) == [k |-> "inf", n |-> s, d |-> 1]
Zero == Whole(0)

IsNull(x) == x.k = "nan"
Sign(n) == IF n > 0 THEN 1 ELSE IF n < 0 THEN -1 ELSE 0

\* a < b as IEEE compares: FALSE when either side is NaN
FLt(a, b) ==
  IF a.k = "nan" \/ b.k = "nan" THEN FALSE
  ELSE IF a.k = "inf" THEN a.n < 0 /\ ~(b.k = "inf" /\ b.n < 0)
  ELSE IF b.k = "inf" THEN b.n > 0
  ELSE a.n * b.d < b.n * a.d

FEq(a, b) ==
  IF a.k = "nan" \/ b.k = "nan" THEN FALSE
  ELSE IF a.k = "inf" \/ b.k = "inf" THEN a.k = b.k /\ a.n = b.n
  ELSE a.n * b.d = b.n * a.d

FLe(a, b) == FLt(a, b) \/ FEq(a, b)

FNeg(a) == IF a.k = "nan" THEN NaN ELSE [a EXCEPT !.n = -a.n]

FAdd(a, b) ==
  IF a.k = "nan" \/ b.k = "nan" THEN NaN
  ELSE IF a.k = "inf" /\ b.k = "inf" THEN (IF a.n = b.n THEN a ELSE NaN)
  ELSE IF a.k = "inf" THEN a
  ELSE IF b.k = "inf" THEN b
  ELSE Num(a.n * b.d + b.n * a.d, a.d * b.d)

FSub(a, b) == FAdd(a, FNeg(b))

FMul(a, b) ==
  IF a.k = "nan" \/ b.k = "nan" THEN NaN
  ELSE IF a.k = "inf" \/ b.k = "inf"
       THEN (IF Sign(a.n) * Sign(b.n) = 0 THEN NaN ELSE Inf(Sign(a.n) * Sign(b.n)))
  ELSE Num(a.n * b.n, a.d * b.d)

\* a / b of two float columns: x/0 is +-inf, 0/0 is NaN, nothing raises
FDiv(a, b) ==
  IF a.k = "nan" \/ b.k = "nan" THEN NaN
  ELSE IF a.k = "inf" THEN (IF b.k = "inf" THEN NaN
                            ELSE Inf(IF b.n < 0 THEN -a.n ELSE a.n))
  ELSE IF b.k = "inf" THEN Zero
  ELSE IF b.n = 0 THEN (IF a.n = 0 THEN NaN ELSE Inf(Sign(a.n)))
  ELSE IF b.n > 0 THEN Num(a.n * b.d, a.d * b.n)
  ELSE Num(-(a.n * b.d), -(a.d * b.n))

\* Python's max(x, 0): 0 replaces x only when 0 > x
PyMax0(x) == IF FLt(x, Zero) THEN Zero ELSE x

\* Series.fillna(0)
FillNa0(x) == IF IsNull(x) THEN Zero ELSE x

\* pd.to_numeric(..., errors='coerce') of one cell: the text of a number
\* becomes that number, anything else becomes NaN
ToNumeric(x) == IF x.k = "bad" THEN NaN ELSE IF x.k = "nan" THEN NaN ELSE x

\* round half to even of n/d (d > 0), as numpy's round(0) does
RoundHalfEven(n, d) ==
  LET fl == IF n >= 0 THEN n \div d ELSE -((-n + d - 1) \div d)
      r2 == 2 * (n - fl * d)
  IN IF r2 < d THEN fl
     ELSE IF r2 > d THEN fl + 1
     ELSE IF fl % 2 = 0 THEN fl ELSE fl + 1

-----------------------------------------------------------------------------
(* Sequences helpers                                                       *)

RECURSIVE Flatten(_)
Flatten(ss) == IF ss = <<>> THEN <<>> ELSE Head(ss) \o Flatten(Tail(ss))

Range(s) == {s[i] : i \in 1..Len(s)}

Take(s, n) == SubSeq(s, 1, IF n < Len(s) THEN n ELSE Len(s))

Column(rows, col) == [i \in 1..Len(rows) |-> rows[i][col]]

-----------------------------------------------------------------------------
(* The remote API: the responses the two endpoints can give.  A text cell  *)
(* is the number it spells (k = "num") or not a number at all (k = "bad"). *)

Bad == [k |-> "bad", n |-> 0, d |-> 1]
Missing == "NaN"      \* the missing value of a text column

ClubNames == << "Club A", "Club B", "Club C", "Club D", "Club E", "Club F" >>

RawTeam(j) ==
  [ id |-> j,
    name |-> ClubNames[j],
    strength_attack_home |-> 1000 + 100 * j,
    strength_attack_away |-> 1000 + 50 * ((j * 2) % 5),
    strength_defence_home |-> 1000 + 100 * ((j * 3) % 4),
    strength_defence_away |-> 1100 + 50 * j ]

RawTeams == [j \in 1..NumTeams |-> RawTeam(j)]

\* Roster entry j.  Team NumTeams + 1 is no row of the Team table,
\* element_type 5 is no position, every fifth total is negative.
RawPlayer(j) ==
  [ id |-> j,
    web_name |-> j,
    team |-> ((j - 1) % (NumTeams + 1)) + 1,
    element_type |-> ((j * 2) % 5) + 1,
    now_cost |-> 40 + 5 * ((j * 3) % 4),
    total_points |-> ((j * 5) % 9) - 2,
    selected_by_percent |-> IF j % 4 = 2 THEN Bad ELSE Num(5 * ((j * 3) % 8), 2),
    points_per_game |-> IF j % 5 = 3 THEN Bad ELSE Num(((j * 3) % 7) + 1, 2),
    form |-> IF j % 7 = 0 THEN Bad ELSE Num((j * 4) % 9, 2),
    ict_index |-> Num((j * 5) % 8, 10) ]

Bootstrap(lo, n) ==
  [ elements |-> [i \in 1..n |-> RawPlayer(lo + i)], teams |-> RawTeams ]

PlayerResponses ==
  { Bootstrap(lo, n) : lo \in 0..MaxOffset, n \in 1..MaxPlayers }

SmallPlayerResponses == { Bootstrap(0, 2), Bootstrap(2, 2) }

HomeScores == {0, 1, 3}
AwayScores == {0, 2}

\* Fixture i of the schedule, with the result the response reports
RawFixture(i, hs, as, fin) ==
  [ team_h |-> ((i - 1) % NumTeams) + 1,
    team_a |-> (i % NumTeams) + 1,
    team_h_score |-> hs,
    team_a_score |-> as,
    finished |-> fin ]

FixtureResults == HomeScores \X AwayScores \X BOOLEAN

FixtureList(rs) ==
  [i \in 1..Len(rs) |-> RawFixture(i, rs[i][1], rs[i][2], rs[i][3])]

FixtureResponses ==
  UNION { { FixtureList(rs) : rs \in [1..n -> FixtureResults] } : n \in 1..MaxFixtures }

SmallFixtureResponses ==
  { FixtureList([i \in 1..NumTeams |-> <<3, 0, fin>>]) : fin \in BOOLEAN }

-----------------------------------------------------------------------------
(* fetch_fpl_data, lines 8-29                                              *)

PositionNames ==
  [t \in 1..4 |-> CASE t = 1 -> "Goalkeeper" [] t = 2 -> "Defender"
                    [] t = 3 -> "Midfielder" [] OTHER -> "Forward"]

\* (mutant) a map with a default: an unknown code becomes a Forward
MapPositionDefaultsForward(t) ==
  IF t \in DOMAIN PositionNames THEN PositionNames[t] ELSE "Forward"

\* Series.map(dict): a key the dict lacks maps to the missing value
MapPosition(t) == IF t \in DOMAIN PositionNames THEN PositionNames[t] ELSE Missing

\* lines 18-21: the coerced and derived columns of one row
AddFields(p) ==
  [ id_x |-> p.id,
    web_name |-> p.web_name,
    team |-> p.team,
    element_type |-> p.element_type,
    now_cost |-> p.now_cost,
    total_points |-> p.total_points,
    form |-> p.form,
    ict_index |-> p.ict_index,
    selected_by_percent |-> ToNumeric(p.selected_by_percent),
    points_per_game |-> ToNumeric(p.points_per_game),
    points_per_million |-> FDiv(Whole(p.total_points), FDiv(Whole(p.now_cost), Whole(10))),
    price_m |-> FDiv(Whole(p.now_cost), Whole(10)) ]

\* the columns a Team row contributes to the merge of line 25
TeamsMapping(t) ==
  [ id_y |-> Whole(t.id),
    name |-> t.name,
    strength_attack_home |-> Whole(t.strength_attack_home),
    strength_defence_away |-> Whole(t.strength_defence_away) ]

NoTeam ==
  [ id_y |-> NaN, name |-> Missing,
    strength_attack_home |-> NaN, strength_defence_away |-> NaN ]

\* players.merge(teams_mapping, left_on='team', right_on='id', how='left'):
\* one output row per matching Team row, one all-missing row when none matches
MergeTeams(ps, ts) ==
  LET matches(p) == SelectSeq(ts, LAMBDA t : t.id = p.team)
      joined(p) == IF matches(p) = <<>> THEN << p @@ NoTeam >>
                   ELSE [m \in 1..Len(matches(p)) |-> p @@ TeamsMapping(matches(p)[m])]
  IN Flatten([i \in 1..Len(ps) |-> joined(ps[i])])

\* lines 26-27
NameAndPosition(p) ==
  p @@ [ team_name |-> p.name, position |-> MapPosition(p.element_type) ]

Enrich(resp) ==
  LET p1 == [i \in 1..Len(resp.elements) |-> AddFields(resp.elements[i])]
      p2 == MergeTeams(p1, resp.teams)
  IN [ players |-> [i \in 1..Len(p2) |-> NameAndPosition(p2[i])],
       teams |-> resp.teams ]

-----------------------------------------------------------------------------
(* The state after the process starts: nothing cached, nothing run         *)

NoFpl == [hit |-> FALSE, players |-> <<>>, teams |-> <<>>]
NoFixtures == [hit |-> FALSE, fixtures |-> <<>>]

FreshScript ==
  /\ players = <<>> /\ teams = <<>> /\ fixtures = <<>>
  /\ selected_positions = {} /\ selected_teams = {} /\ max_price = NaN
  /\ filtered_players = <<>>
  /\ warning = FALSE
  /\ top_captains = <<>> /\ top_differentials = <<>>
  /\ top_set_piece = <<>> /\ top_value_picks = <<>>
  /\ scatter = <<>>
  /\ team_goals = <<>> /\ team_ratings_display = <<>>
  /\ styled_table = <<>>

Init ==
  /\ cache_fpl = NoFpl /\ cache_fixtures = NoFixtures
  /\ http_fpl = 0 /\ http_fixtures = 0
  /\ served_fpl = "none" /\ served_fixtures = "none"
  /\ pc = "fetch_fpl_data" /\ error = "none"
  /\ FreshScript

-----------------------------------------------------------------------------
(* The two memoized fetch functions, lines 6-41.  @st.cache_data keeps one *)
(* entry per function (they take no arguments); a call that raises caches  *)
(* nothing.                                                                *)

\* line 31, no entry yet: the body runs, one GET, the result is stored
FetchFplDataMiss(responses) ==
  /\ pc = "fetch_fpl_data"
  /\ ~cache_fpl.hit
  /\ http_fpl < MaxGets
  /\ \E resp \in responses :
       LET e == Enrich(resp)
       IN /\ cache_fpl' = [hit |-> TRUE, players |-> e.players, teams |-> e.teams]
          /\ players' = e.players
          /\ teams' = e.teams
  /\ http_fpl' = http_fpl + 1
  /\ served_fpl' = "http"
  /\ pc' = "fetch_fixtures"
  /\ UNCHANGED << cache_fixtures, http_fixtures, served_fixtures, error, fixtures,
                  selected_positions, selected_teams, max_price, filtered_players,
                  warning, top_captains, top_differentials, top_set_piece,
                  top_value_picks, scatter, team_goals, team_ratings_display,
                  styled_table >>

\* (mutant) the function without its memo: the body runs on every call
FetchFplDataRefetches ==
  /\ pc = "fetch_fpl_data"
  /\ cache_fpl.hit
  /\ http_fpl < MaxGets
  /\ \E resp \in SmallPlayerResponses :
       LET e == Enrich(resp)
       IN /\ cache_fpl' = [hit |-> TRUE, players |-> e.players, teams |-> e.teams]
          /\ players' = e.players
          /\ teams' = e.teams
  /\ http_fpl' = http_fpl + 1
  /\ served_fpl' = "http"
  /\ pc' = "fetch_fixtures"
  /\ UNCHANGED << cache_fixtures, http_fixtures, served_fixtures, error, fixtures,
                  selected_positions, selected_teams, max_price, filtered_players,
                  warning, top_captains, top_differentials, top_set_piece,
                  top_value_picks, scatter, team_goals, team_ratings_display,
                  styled_table >>

\* line 31, entry present: the stored result is returned, the body is skipped
FetchFplDataHit ==
  /\ pc = "fetch_fpl_data"
  /\ cache_fpl.hit
  /\ players' = cache_fpl.players
  /\ teams' = cache_fpl.teams
  /\ served_fpl' = "cache"
  /\ pc' = "fetch_fixtures"
  /\ UNCHANGED << cache_fpl, cache_fixtures, http_fpl, http_fixtures,
                  served_fixtures, error, fixtures,
                  selected_positions, selected_teams, max_price, filtered_players,
                  warning, top_captains, top_differentials, top_set_piece,
                  top_value_picks, scatter, team_goals, team_ratings_display,
                  styled_table >>

\* lines 10-11: requests.get or response.json() raises; nothing is caught
FetchFplDataRaises ==
  /\ pc = "fetch_fpl_data"
  /\ ~cache_fpl.hit
  /\ http_fpl + 1 < MaxGets
  /\ http_fpl' = http_fpl + 1
  /\ served_fpl' = "http"
  /\ error' = "RequestException"
  /\ pc' = "done"
  /\ UNCHANGED << cache_fpl, cache_fixtures, http_fixtures, served_fixtures >>
  /\ UNCHANGED scriptVars

\* line 41, no entry yet
FetchFixturesMiss(responses) ==
  /\ pc = "fetch_fixtures"
  /\ ~cache_fixtures.hit
  /\ http_fixtures < MaxGets
  /\ \E resp \in responses :
       /\ cache_fixtures' = [hit |-> TRUE, fixtures |-> resp]
       /\ fixtures' = resp
  /\ http_fixtures' = http_fixtures + 1
  /\ served_fixtures' = "http"
  /\ pc' = "sidebar"
  /\ UNCHANGED << cache_fpl, http_fpl, served_fpl, error, players, teams,
                  selected_positions, selected_teams, max_price, filtered_players,
                  warning, top_captains, top_differentials, top_set_piece,
                  top_value_picks, scatter, team_goals, team_ratings_display,
                  styled_table >>

\* line 41, entry present
FetchFixturesHit ==
  /\ pc = "fetch_fixtures"
  /\ cache_fixtures.hit
  /\ fixtures' = cache_fixtures.fixtures
  /\ served_fixtures' = "cache"
  /\ pc' = "sidebar"
  /\ UNCHANGED << cache_fpl, cache_fixtures, http_fpl, http_fixtures, served_fpl,
                  error, players, teams,
                  selected_positions, selected_teams, max_price, filtered_players,
                  warning, top_captains, top_differentials, top_set_piece,
                  top_value_picks, scatter, team_goals, team_ratings_display,
                  styled_table >>

\* lines 37-38 raise
FetchFixturesRaises ==
  /\ pc = "fetch_fixtures"
  /\ ~cache_fixtures.hit
  /\ http_fixtures + 1 < MaxGets
  /\ http_fixtures' = http_fixtures + 1
  /\ served_fixtures' = "http"
  /\ error' = "RequestException"
  /\ pc' = "done"
  /\ UNCHANGED << cache_fpl, cache_fixtures, http_fpl, served_fpl >>
  /\ UNCHANGED scriptVars

-----------------------------------------------------------------------------
(* Sidebar filters, lines 47-51                                            *)

\* Series.unique(): the distinct values of a column, the missing value included
Unique(rows, col) == Range(Column(rows, col))

ColMin(rows, col) ==
  CHOOSE x \in Unique(rows, col) : \A y \in Unique(rows, col) : FLe(x, y)

ColMax(rows, col) ==
  CHOOSE x \in Unique(rows, col) : \A y \in Unique(rows, col) : FLe(y, x)

\* What the three widgets can return.  A multiselect returns any subset of
\* its options; the team choices are bounded to all, one or none of them; the
\* slider to its two ends.  Untouched widgets return their defaults.
PositionChoices(free) ==
  IF free THEN SUBSET Unique(players, "position")
  ELSE { Unique(players, "position") }

TeamChoices(free) ==
  LET options == Unique(players, "team_name")
  IN IF free THEN {options} \cup {{t} : t \in options} \cup {{}}
     ELSE {options}

PriceChoices(free) ==
  IF free THEN { ColMin(players, "price_m"), ColMax(players, "price_m") }
  ELSE { ColMax(players, "price_m") }

Sidebar(free) ==
  /\ pc = "sidebar"
  /\ \E ps \in PositionChoices(free), ts \in TeamChoices(free), mp \in PriceChoices(free) :
       /\ selected_positions' = ps
       /\ selected_teams' = ts
       /\ max_price' = mp
  /\ pc' = "filter"
  /\ UNCHANGED << cache_fpl, cache_fixtures, http_fpl, http_fixtures, served_fpl,
                  served_fixtures, error, players, teams, fixtures,
                  filtered_players, warning, top_captains, top_differentials,
                  top_set_piece, top_value_picks, scatter, team_goals,
                  team_ratings_display, styled_table >>

-----------------------------------------------------------------------------
(* Filter Stage, lines 53-71                                               *)

\* Series.isin(values): membership, a missing cell matching a missing option
IsIn(x, values) == x \in values

\* (mutant) the price test as a strict comparison
MaskStrictPrice(p, positions, tms, mp) ==
  /\ IsIn(p.position, positions)
  /\ IsIn(p.team_name, tms)
  /\ FLt(p.price_m, mp)

\* the boolean mask of lines 55-57 for one row
Mask(p, positions, tms, mp) ==
  /\ IsIn(p.position, positions)
  /\ IsIn(p.team_name, tms)
  /\ FLe(p.price_m, mp)

\* lines 54-63: the masked rows, or every row when the mask selects none
FilterRows(ps, positions, tms, mp) ==
  LET kept == SelectSeq(ps, LAMBDA p : Mask(p, positions, tms, mp))
  IN IF kept = <<>> THEN ps ELSE kept

NumericColumns == << "ict_index", "points_per_game", "form", "points_per_million" >>

SetCol(row, col, v) ==
  [c \in (DOMAIN row) \cup {col} |-> IF c = col THEN v ELSE row[c]]

\* lines 67-71 for one row: coerce and zero-fill, or add the column as 0
RECURSIVE CoerceRow(_, _)
CoerceRow(row, cols) ==
  IF cols = <<>> THEN row
  ELSE LET col == Head(cols)
           v == IF col \in DOMAIN row THEN FillNa0(ToNumeric(row[col])) ELSE Zero
       IN CoerceRow(SetCol(row, col, v), Tail(cols))

\* (mutant) the coercion loop also derives price_m again, from itself
CoerceNumericRescalesPrice(rows) ==
  [i \in 1..Len(rows) |->
     SetCol(CoerceRow(rows[i], NumericColumns), "price_m",
            FDiv(rows[i].price_m, Whole(10)))]

CoerceNumeric(rows) == [i \in 1..Len(rows) |-> CoerceRow(rows[i], NumericColumns)]

FilterStage(ps, positions, tms, mp) ==
  CoerceNumeric(FilterRows(ps, positions, tms, mp))

ApplyFilters ==
  /\ pc = "filter"
  /\ filtered_players' = FilterStage(players, selected_positions, selected_teams, max_price)
  /\ warning' = (SelectSeq(players, LAMBDA p : Mask(p, selected_positions,
                                                     selected_teams, max_price)) = <<>>)
  /\ pc' = "tab1"
  /\ UNCHANGED << cache_fpl, cache_fixtures, http_fpl, http_fixtures, served_fpl,
                  served_fixtures, error, players, teams, fixtures,
                  selected_positions, selected_teams, max_price,
                  top_captains, top_differentials, top_set_piece, top_value_picks,
                  scatter, team_goals, team_ratings_display, styled_table >>

-----------------------------------------------------------------------------
(* Ranking views, lines 76-164                                             *)

\* The index of the largest non-missing value among idx, the first on a tie
FirstMax(rows, col, idx) ==
  CHOOSE i \in idx :
    \A j \in idx : \/ FLt(rows[j][col], rows[i][col])
                   \/ (FEq(rows[j][col], rows[i][col]) /\ i <= j)

RECURSIVE DescendingOrder(_, _, _)
DescendingOrder(rows, col, idx) ==
  IF idx = {} THEN <<>>
  ELSE LET i == FirstMax(rows, col, idx)
       IN <<i>> \o DescendingOrder(rows, col, idx \ {i})

\* DataFrame.sort_values(by=col, ascending=False): descending, ties in table
\* order, rows with a missing col last in table order
SortValuesDescending(rows, col) ==
  LET valued == {i \in 1..Len(rows) : ~IsNull(rows[i][col])}
      nulls == SelectSeq([i \in 1..Len(rows) |-> i], LAMBDA i : IsNull(rows[i][col]))
      order == DescendingOrder(rows, col, valued) \o nulls
  IN [r \in 1..Len(order) |-> rows[order[r]]]

\* (mutant) nlargest over the valued rows only, rows with a missing col dropped
NLargestDropsMissing(rows, n, col) ==
  Take(SelectSeq(SortValuesDescending(rows, col), LAMBDA r : ~IsNull(r[col])), n)

\* DataFrame.nlargest(n, col), keep='first': the first n rows of the
\* descending order; rows with a missing col fill up after the valued ones
NLargest(rows, n, col) == Take(SortValuesDescending(rows, col), n)

\* line 79
CaptaincyScore(p) == FAdd(p.form, p.ict_index)

WithCaptaincyScore(rows) ==
  [i \in 1..Len(rows) |-> SetCol(rows[i], "captaincy_score", CaptaincyScore(rows[i]))]

\* (mutant) the ownership share zero-filled before the product
DifferentialScoreFillsShare(p) ==
  FMul(p.points_per_game,
       FSub(Whole(1), FDiv(FillNa0(p.selected_by_percent), Whole(100))))

\* line 97
DifferentialScore(p) ==
  FMul(p.points_per_game, FSub(Whole(1), FDiv(p.selected_by_percent, Whole(100))))

WithDifferentialScore(rows) ==
  [i \in 1..Len(rows) |-> SetCol(rows[i], "differential_score", DifferentialScore(rows[i]))]

\* lines 149-151
FixtureDifficulty(p) ==
  IF ~IsNull(p.strength_attack_home)
  THEN FDiv(FAdd(p.strength_attack_home, p.strength_defence_away), Whole(2))
  ELSE Zero

WithFixtureDifficulty(rows) ==
  [i \in 1..Len(rows) |-> SetCol(rows[i], "fixture_difficulty", FixtureDifficulty(rows[i]))]

\* line 152
ClampPointsPerMillion(p) == PyMax0(p.points_per_million)

WithClampedPointsPerMillion(rows) ==
  [i \in 1..Len(rows) |->
     SetCol(rows[i], "points_per_million", ClampPointsPerMillion(rows[i]))]

Tab1 ==
  /\ pc = "tab1"
  /\ filtered_players' = WithCaptaincyScore(filtered_players)
  /\ top_captains' = NLargest(filtered_players', TopK, "captaincy_score")
  /\ pc' = "tab2"
  /\ UNCHANGED << cache_fpl, cache_fixtures, http_fpl, http_fixtures, served_fpl,
                  served_fixtures, error, players, teams, fixtures,
                  selected_positions, selected_teams, max_price, warning,
                  top_differentials, top_set_piece, top_value_picks,
                  scatter, team_goals, team_ratings_display, styled_table >>

Tab2 ==
  /\ pc = "tab2"
  /\ filtered_players' = WithDifferentialScore(filtered_players)
  /\ top_differentials' = NLargest(filtered_players', TopK, "differential_score")
  /\ pc' = "tab3"
  /\ UNCHANGED << cache_fpl, cache_fixtures, http_fpl, http_fixtures, served_fpl,
                  served_fixtures, error, players, teams, fixtures,
                  selected_positions, selected_teams, max_price, warning,
                  top_captains, top_set_piece, top_value_picks,
                  scatter, team_goals, team_ratings_display, styled_table >>

Tab3 ==
  /\ pc = "tab3"
  /\ top_set_piece' = NLargest(filtered_players, TopK, "ict_index")
  /\ pc' = "tab4"
  /\ UNCHANGED << cache_fpl, cache_fixtures, http_fpl, http_fixtures, served_fpl,
                  served_fixtures, error, players, teams, fixtures,
                  selected_positions, selected_teams, max_price, warning,
                  filtered_players, top_captains, top_differentials, top_value_picks,
                  scatter, team_goals, team_ratings_display, styled_table >>

Tab4 ==
  /\ pc = "tab4"
  /\ top_value_picks' = NLargest(filtered_players, TopK, "points_per_million")
  /\ pc' = "tab5"
  /\ UNCHANGED << cache_fpl, cache_fixtures, http_fpl, http_fixtures, served_fpl,
                  served_fixtures, error, players, teams, fixtures,
                  selected_positions, selected_teams, max_price, warning,
                  filtered_players, top_captains, top_differentials, top_set_piece,
                  scatter, team_goals, team_ratings_display, styled_table >>

Tab5 ==
  /\ pc = "tab5"
  /\ filtered_players' =
       WithClampedPointsPerMillion(WithFixtureDifficulty(filtered_players))
  /\ scatter' = filtered_players'
  /\ pc' = "tab6"
  /\ UNCHANGED << cache_fpl, cache_fixtures, http_fpl, http_fixtures, served_fpl,
                  served_fixtures, error, players, teams, fixtures,
                  selected_positions, selected_teams, max_price, warning,
                  top_captains, top_differentials, top_set_piece, top_value_picks,
                  team_goals, team_ratings_display, styled_table >>

-----------------------------------------------------------------------------
(* Team Rating, lines 166-239                                              *)

RECURSIVE SumCol(_, _)
SumCol(rows, col) ==
  IF rows = <<>> THEN 0 ELSE Head(rows)[col] + SumCol(Tail(rows), col)

RECURSIVE Ascending(_)
Ascending(S) ==
  IF S = {} THEN <<>>
  ELSE LET m == CHOOSE x \in S : \A y \in S : x <= y
       IN <<m>> \o Ascending(S \ {m})

\* (mutant) every fixture counted, finished or not
CompletedFixturesAll(fx) == fx

\* line 171
CompletedFixtures(fx) == SelectSeq(fx, LAMBDA f : f.finished = TRUE)

\* lines 174-176
HomeStats(completed) ==
  [i \in 1..Len(completed) |->
     [ team |-> completed[i].team_h,
       goals_scored |-> completed[i].team_h_score,
       goals_conceded |-> completed[i].team_a_score ]]

\* lines 179-181
AwayStats(completed) ==
  [i \in 1..Len(completed) |->
     [ team |-> completed[i].team_a,
       goals_scored |-> completed[i].team_a_score,
       goals_conceded |-> completed[i].team_h_score ]]

\* line 187: groupby('team').sum().reset_index(), one row per team id that
\* occurs, in ascending order of the id
GroupSum(all_stats) ==
  LET keys == Ascending(Unique(all_stats, "team"))
      of(t) == SelectSeq(all_stats, LAMBDA r : r.team = t)
  IN [i \in 1..Len(keys) |->
        [ team |-> keys[i],
          goals_scored |-> Whole(SumCol(of(keys[i]), "goals_scored")),
          goals_conceded |-> Whole(SumCol(of(keys[i]), "goals_conceded")) ]]

\* lines 190-192: left merge of the Team names on the team id
MergeNames(goals, tms) ==
  LET matches(g) == SelectSeq(tms, LAMBDA t : t.id = g.team)
      joined(g) == IF matches(g) = <<>> THEN << g @@ [Team |-> Missing] >>
                   ELSE [m \in 1..Len(matches(g)) |-> g @@ [Team |-> matches(g)[m].name]]
  IN Flatten([i \in 1..Len(goals) |-> joined(goals[i])])

\* lines 170-195
TeamGoals(fx, tms) ==
  LET completed == CompletedFixtures(fx)
      all_stats == HomeStats(completed) \o AwayStats(completed)
      named == MergeNames(GroupSum(all_stats), tms)
  IN [i \in 1..Len(named) |->
        named[i] @@ [GD |-> FSub(named[i].goals_scored, named[i].goals_conceded)]]

\* lines 198-201
Ratings(t) ==
  LET attack == RoundHalfEven(t.strength_attack_home + t.strength_attack_away, 200)
      defence == RoundHalfEven(t.strength_defence_home + t.strength_defence_away, 200)
  IN [ name |-> t.name, Attack |-> Whole(attack), Defence |-> Whole(defence),
       Overall |-> Whole(attack - defence) ]

\* (mutant) the merge of line 204 as an inner join
MergeGoalsInner(tms, goals) ==
  LET matches(t) == SelectSeq(goals, LAMBDA g : g.Team = t.name)
      joined(t) ==
        [m \in 1..Len(matches(t)) |->
           [ Team |-> matches(t)[m].Team,
             Attack_Rating |-> Ratings(t).Attack,
             Defence_Rating |-> Ratings(t).Defence,
             Overall_Rating |-> Ratings(t).Overall,
             Goals_Scored |-> matches(t)[m].goals_scored,
             Goals_Conceded |-> matches(t)[m].goals_conceded,
             Goal_Difference |-> matches(t)[m].GD ]]
  IN Flatten([i \in 1..Len(tms) |-> joined(tms[i])])

\* lines 204-215: left merge of the goals on the team name, then the display
\* columns; a team without a row of goals gets missing values, its Team too
MergeGoals(tms, goals) ==
  LET shown(r, g) ==
        [ Team |-> g.Team,
          Attack_Rating |-> r.Attack,
          Defence_Rating |-> r.Defence,
          Overall_Rating |-> r.Overall,
          Goals_Scored |-> g.goals_scored,
          Goals_Conceded |-> g.goals_conceded,
          Goal_Difference |-> g.GD ]
      none == [ Team |-> Missing, goals_scored |-> NaN, goals_conceded |-> NaN, GD |-> NaN ]
      matches(t) == SelectSeq(goals, LAMBDA g : g.Team = t.name)
      joined(t) == IF matches(t) = <<>> THEN << shown(Ratings(t), none) >>
                   ELSE [m \in 1..Len(matches(t)) |-> shown(Ratings(t), matches(t)[m])]
  IN Flatten([i \in 1..Len(tms) |-> joined(tms[i])])

\* lines 221-222: the index of the sorted table becomes 1..N
Ranked(rows) == [i \in 1..Len(rows) |-> rows[i] @@ [index |-> i]]

\* lines 197-222
TeamRatingsDisplay(tms, goals) ==
  Ranked(SortValuesDescending(MergeGoals(tms, goals), "Goal_Difference"))

IntColumns == << "Attack_Rating", "Defence_Rating", "Overall_Rating",
                 "Goals_Scored", "Goals_Conceded", "Goal_Difference" >>

\* Series.astype(int) raises on a missing or infinite value
CanCastInt(rows) ==
  \A i \in 1..Len(rows) : \A c \in Range(IntColumns) : rows[i][c].k = "num"

\* astype(int) of one value: truncation toward zero
AsInt(x) == Whole(IF x.n >= 0 THEN x.n \div x.d ELSE -((-x.n) \div x.d))

RECURSIVE CastRow(_, _)
CastRow(row, cols) ==
  IF cols = <<>> THEN row
  ELSE CastRow(SetCol(row, Head(cols), AsInt(row[Head(cols)])), Tail(cols))

Tab6Build ==
  /\ pc = "tab6"
  /\ team_goals' = TeamGoals(fixtures, teams)
  /\ team_ratings_display' = TeamRatingsDisplay(teams, team_goals')
  /\ pc' = "tab6_show"
  /\ UNCHANGED << cache_fpl, cache_fixtures, http_fpl, http_fixtures, served_fpl,
                  served_fixtures, error, players, teams, fixtures,
                  selected_positions, selected_teams, max_price, warning,
                  filtered_players, top_captains, top_differentials, top_set_piece,
                  top_value_picks, scatter, styled_table >>

\* lines 224-239 when every value can be cast
Tab6Show ==
  /\ pc = "tab6_show"
  /\ CanCastInt(team_ratings_display)
  /\ team_ratings_display' =
       [i \in 1..Len(team_ratings_display) |-> CastRow(team_ratings_display[i], IntColumns)]
  /\ styled_table' = team_ratings_display'
  /\ pc' = "done"
  /\ UNCHANGED << cache_fpl, cache_fixtures, http_fpl, http_fixtures, served_fpl,
                  served_fixtures, error, players, teams, fixtures,
                  selected_positions, selected_teams, max_price, warning,
                  filtered_players, top_captains, top_differentials, top_set_piece,
                  top_value_picks, scatter, team_goals >>

\* line 226 raises on the first column that holds a missing value; nothing
\* catches it, the table is never written to the page
Tab6Raises ==
  /\ pc = "tab6_show"
  /\ ~CanCastInt(team_ratings_display)
  /\ error' = "IntCastingNaNError"
  /\ pc' = "done"
  /\ UNCHANGED << cache_fpl, cache_fixtures, http_fpl, http_fixtures, served_fpl,
                  served_fixtures >>
  /\ UNCHANGED scriptVars

-----------------------------------------------------------------------------
(* The life of the process                                                 *)

\* a run of the script starts with none of its globals set
ScriptStarts ==
  /\ players' = <<>> /\ teams' = <<>> /\ fixtures' = <<>>
  /\ selected_positions' = {} /\ selected_teams' = {} /\ max_price' = NaN
  /\ filtered_players' = <<>>
  /\ warning' = FALSE
  /\ top_captains' = <<>> /\ top_differentials' = <<>>
  /\ top_set_piece' = <<>> /\ top_value_picks' = <<>>
  /\ scatter' = <<>>
  /\ team_goals' = <<>> /\ team_ratings_display' = <<>>
  /\ styled_table' = <<>>

\* a widget change or a page reload runs the script again in the same process
Rerun ==
  /\ pc = "done"
  /\ pc' = "fetch_fpl_data"
  /\ error' = "none"
  /\ served_fpl' = "none" /\ served_fixtures' = "none"
  /\ ScriptStarts
  /\ UNCHANGED << cache_fpl, cache_fixtures, http_fpl, http_fixtures >>

\* the process is stopped and started again: the memo entries are gone
Restart ==
  /\ pc = "done"
  /\ cache_fpl' = NoFpl /\ cache_fixtures' = NoFixtures
  /\ http_fpl' = 0 /\ http_fixtures' = 0
  /\ served_fpl' = "none" /\ served_fixtures' = "none"
  /\ pc' = "fetch_fpl_data" /\ error' = "none"
  /\ ScriptStarts

Views == Tab1 \/ Tab2 \/ Tab3 \/ Tab4 \/ Tab5 \/ Tab6Build \/ Tab6Show \/ Tab6Raises

\* every render of a process, fetch failures included, over small responses
Next ==
  \/ FetchFplDataMiss(SmallPlayerResponses)
  \/ FetchFplDataHit
  \/ FetchFplDataRaises
  \/ FetchFixturesMiss(SmallFixtureResponses)
  \/ FetchFixturesHit
  \/ FetchFixturesRaises
  \/ Sidebar(TRUE)
  \/ ApplyFilters
  \/ Views
  \/ Rerun
  \/ Restart

Spec == Init /\ [][Next]_vars

\* the first render of a process over every bootstrap response and every
\* choice of the filters
NextPlayers ==
  \/ FetchFplDataMiss(PlayerResponses)
  \/ FetchFixturesMiss(SmallFixtureResponses)
  \/ Sidebar(TRUE)
  \/ ApplyFilters
  \/ Views

SpecPlayers == Init /\ [][NextPlayers]_vars

\* the first render of a process over every fixtures response
NextTeams ==
  \/ FetchFplDataMiss(SmallPlayerResponses)
  \/ FetchFixturesMiss(FixtureResponses)
  \/ Sidebar(FALSE)
  \/ ApplyFilters
  \/ Views

SpecTeams == Init /\ [][NextTeams]_vars

-----------------------------------------------------------------------------
(* Properties                                                              *)

\* the render has run the Filter Stage
FilterDone ==
  \/ pc \in {"tab1", "tab2", "tab3", "tab4", "tab5", "tab6", "tab6_show"}
  \/ (pc = "done" /\ error # "RequestException")

\* the render has run tab k, k in 1..5
TabDone(k) ==
  \/ (pc = "done" /\ error # "RequestException")
  \/ pc \in {"tab6", "tab6_show"}
  \/ (pc = "tab5" /\ k <= 4) \/ (pc = "tab4" /\ k <= 3)
  \/ (pc = "tab3" /\ k <= 2) \/ (pc = "tab2" /\ k <= 1)

\* the render has built the Team Rating table (line 222)
RatingsBuilt == pc = "tab6_show" \/ (pc = "done" /\ error # "RequestException")

Ids(rows) == [i \in 1..Len(rows) |-> rows[i].id_x]

\* the rows of the player table that meet the three selected constraints
Matching ==
  { i \in 1..Len(players) :
      /\ players[i].position \in selected_positions
      /\ players[i].team_name \in selected_teams
      /\ players[i].price_m.n * max_price.d <= max_price.n * players[i].price_m.d }

(* C1: the Filter Stage returns exactly the rows whose position and team     *)
(* are selected and whose price is at most max_price, in table order, when   *)
(* there is such a row, and every row of the player table when there is      *)
(* none; it never returns an empty table.                                    *)
C1_FilterResult ==
  FilterDone =>
    /\ filtered_players # <<>>
    /\ IF Matching # {}
       THEN /\ Range(Ids(filtered_players)) = {players[i].id_x : i \in Matching}
            /\ Len(filtered_players) = Cardinality(Matching)
            /\ ~warning
       ELSE /\ Ids(filtered_players) = Ids(players)
            /\ warning

C1_Witness ==
  /\ pc = "tab1"
  /\ Matching # {}
  /\ Len(filtered_players) < Len(players)
  /\ \E i \in 1..Len(players) :
       /\ players[i].position \in selected_positions
       /\ players[i].team_name \in selected_teams
       /\ i \notin Matching

(* C2: filtering is idempotent: the Filter Stage (mask, fallback and         *)
(* coercion) applied with the same constraints to the table it returned      *)
(* returns that table.                                                       *)
C2_FilterIdempotent ==
  FilterDone =>
    FilterStage(filtered_players, selected_positions, selected_teams, max_price)
      = filtered_players

C2_Witness ==
  /\ pc = "tab1"
  /\ ~warning
  /\ Len(filtered_players) < Len(players)
  /\ Len(filtered_players) >= 2
  /\ \E i \in 1..Len(players) : players[i].form = Bad

\* the score of a row is at least that of another, or one of them has none
NotBelow(a, b) == IsNull(a) \/ IsNull(b) \/ FLe(b, a)

\* a top-10 table over the frame it was taken from
TopTen(top, frame, col) ==
  /\ Len(top) <= TopK
  /\ Len(top) < TopK => Len(top) = Len(frame)
  /\ \A i, j \in 1..Len(top) :
       i < j => /\ NotBelow(top[i][col], top[j][col])
                /\ IsNull(top[i][col]) => IsNull(top[j][col])
  /\ \A i \in 1..Len(top) : \E r \in 1..Len(frame) :
       frame[r].id_x = top[i].id_x /\ frame[r][col] = top[i][col]
  /\ \A r \in 1..Len(frame) :
       frame[r].id_x \notin Range(Ids(top)) =>
         \A i \in 1..Len(top) :
           /\ NotBelow(top[i][col], frame[r][col])
           /\ IsNull(top[i][col]) => IsNull(frame[r][col])

(* C3: each of the four top-10 views holds at most 10 rows, in non-          *)
(* increasing order of its score with the rows that have no score last,      *)
(* holds fewer than 10 rows only when the filtered table has fewer than 10,  *)
(* and no row left out has a higher score than a row shown.                  *)
C3_TopTenViews ==
  /\ TabDone(1) => TopTen(top_captains, filtered_players, "captaincy_score")
  /\ TabDone(2) => TopTen(top_differentials, filtered_players, "differential_score")
  /\ TabDone(3) => TopTen(top_set_piece, filtered_players, "ict_index")
  /\ (TabDone(4) /\ pc # "tab6" /\ pc # "tab6_show" /\ pc # "done") =>
       TopTen(top_value_picks, filtered_players, "points_per_million")
  /\ TabDone(4) =>
       /\ Len(top_value_picks) <= TopK
       /\ Len(top_value_picks) < TopK => Len(top_value_picks) = Len(filtered_players)
       /\ \A i, j \in 1..Len(top_value_picks) :
            i < j => FLe(top_value_picks[j].points_per_million,
                         top_value_picks[i].points_per_million)

C3_Witness ==
  /\ pc = "tab6"
  /\ Len(filtered_players) > TopK
  /\ Len(top_differentials) = TopK
  /\ \E i \in 1..Len(top_differentials) : IsNull(top_differentials[i].differential_score)
  /\ \E i \in 1..Len(top_differentials) : ~IsNull(top_differentials[i].differential_score)

InvalidType(p) == p.element_type \notin 1..4

Kept(i) == \E r \in 1..Len(filtered_players) : filtered_players[r].id_x = players[i].id_x

RECURSIVE Goals(_, _)
Goals(S, col) ==
  IF S = {} THEN 0
  ELSE LET i == CHOOSE j \in S : TRUE IN fixtures[i][col] + Goals(S \ {i}, col)

FinishedAt(t, side) ==
  { i \in 1..Len(fixtures) : fixtures[i].finished /\ fixtures[i][side] = t }

Scored(t) ==
  Goals(FinishedAt(t, "team_h"), "team_h_score") + Goals(FinishedAt(t, "team_a"), "team_a_score")

Conceded(t) ==
  Goals(FinishedAt(t, "team_h"), "team_a_score") + Goals(FinishedAt(t, "team_a"), "team_h_score")

PlaysFinished(t) == FinishedAt(t, "team_h") \cup FinishedAt(t, "team_a") # {}

(* C5: the goals aggregate has one row for every team of a finished         *)
(* fixture and no other row; its goals scored are the team's home scores in  *)
(* finished home fixtures plus its away scores in finished away fixtures,    *)
(* its goals conceded the opponents' scores in those fixtures, and GD their  *)
(* difference; unfinished fixtures add nothing.                              *)
C5_GoalsAggregate ==
  RatingsBuilt =>
    /\ \A t \in 1..NumTeams :
         PlaysFinished(t) =>
           \E i \in 1..Len(team_goals) :
             /\ team_goals[i].team = t
             /\ team_goals[i].goals_scored = Whole(Scored(t))
             /\ team_goals[i].goals_conceded = Whole(Conceded(t))
             /\ team_goals[i].GD = Whole(Scored(t) - Conceded(t))
             /\ \A j \in 1..Len(team_goals) : team_goals[j].team = t => j = i
    /\ \A i \in 1..Len(team_goals) : PlaysFinished(team_goals[i].team)

C5_Witness ==
  /\ pc = "tab6_show"
  /\ \E t \in 1..NumTeams :
       /\ FinishedAt(t, "team_h") # {} /\ FinishedAt(t, "team_a") # {}
       /\ Scored(t) > 0 /\ Conceded(t) > 0
  /\ \E i \in 1..Len(fixtures) :
       ~fixtures[i].finished /\ fixtures[i].team_h_score > 0

C7_AsStated ==
  /\ \A i \in 1..Len(players) :
       (\A k \in 1..Len(teams) : teams[k].id # players[i].team) =>
          /\ players[i].team_name = Missing
          /\ IsNull(players[i].strength_attack_home)
  /\ cache_fpl.hit =>
       \E resp \in SmallPlayerResponses :
         /\ Len(players) = Len(resp.elements)
         /\ \A i \in 1..Len(players) : players[i].id_x = resp.elements[i].id
  /\ pc = "done" =>
       /\ error = "none"
       /\ Len(styled_table) = Len(teams)

\* a step that keeps what the two memo entries hold and issues no GET for
\* a function whose entry is present; a call of such a function hands the
\* stored result to the script
MemoKept ==
  /\ cache_fpl.hit =>
       /\ cache_fpl' = cache_fpl
       /\ http_fpl' = http_fpl
       /\ (pc = "fetch_fpl_data" /\ pc' # pc) =>
             (players' = cache_fpl.players /\ teams' = cache_fpl.teams)
  /\ cache_fixtures.hit =>
       /\ cache_fixtures' = cache_fixtures
       /\ http_fixtures' = http_fixtures
       /\ (pc = "fetch_fixtures" /\ pc' # pc) =>
             fixtures' = cache_fixtures.fixtures

(* C8: once a fetch function has returned, no later call of it in the same   *)
(* process issues a GET or replaces the stored result, and each later call   *)
(* hands the stored result to the script; only a restart of the process      *)
(* empties the memo.                                                         *)
C8_FetchedOnce == [][Restart \/ MemoKept]_vars

C8_Witness ==
  /\ pc = "done" /\ error = "none"
  /\ served_fpl = "cache" /\ served_fixtures = "cache"
  /\ http_fpl = 2 /\ http_fixtures = 1
  /\ players = cache_fpl.players

\* the row of the player table a filtered row was taken from
Source(r) == players[CHOOSE i \in 1..Len(players) : players[i].id_x = r.id_x]

(* C9 as stated: a filtered player whose selected_by_percent or             *)
(* points_per_game failed numeric coercion has a missing differential_score. *)
C9_AsStated ==
  TabDone(2) =>
    \A i \in 1..Len(filtered_players) :
      (IsNull(Source(filtered_players[i]).selected_by_percent)
         \/ IsNull(Source(filtered_players[i]).points_per_game))
        => IsNull(filtered_players[i].differential_score)

(* C9 amended: a malformed selected_by_percent or points_per_game is a       *)
(* missing value of the player table; a filtered player whose                *)
(* selected_by_percent is missing has a missing differential_score; one      *)
(* whose points_per_game is missing has it zero-filled by the Filter Stage,  *)
(* and its differential_score is 0 when its selected_by_percent is a number. *)
C9_ShareMissingPropagates ==
  /\ cache_fpl.hit =>
       \A i \in 1..Len(players) :
         /\ players[i].selected_by_percent.k \in {"num", "nan"}
         /\ players[i].points_per_game.k \in {"num", "nan"}
  /\ TabDone(2) =>
       \A i \in 1..Len(filtered_players) :
         LET r == filtered_players[i]
             src == Source(r)
         IN /\ IsNull(src.selected_by_percent) => IsNull(r.differential_score)
            /\ IsNull(src.points_per_game) => r.points_per_game = Zero
            /\ (IsNull(src.points_per_game) /\ ~IsNull(src.selected_by_percent)) =>
                 FEq(r.differential_score, Zero)
            /\ (~IsNull(src.points_per_game) /\ ~IsNull(src.selected_by_percent)) =>
                 ~IsNull(r.differential_score)

C9_Witness ==
  /\ pc = "tab3"
  /\ \E i \in 1..Len(filtered_players) :
       /\ IsNull(Source(filtered_players[i]).selected_by_percent)
       /\ IsNull(filtered_players[i].differential_score)
  /\ \E i \in 1..Len(filtered_players) :
       /\ IsNull(Source(filtered_players[i]).points_per_game)
       /\ FEq(filtered_players[i].differential_score, Zero)

\* a step of the Filter Stage or of a view that keeps the memo entry and,
\* for a view, every cell of every column the filtered table already has
ViewIsPure ==
  pc \in {"filter", "tab1", "tab2", "tab3", "tab4", "tab5", "tab6", "tab6_show"} =>
    /\ cache_fpl' = cache_fpl
    /\ pc # "filter" =>
         /\ Len(filtered_players') = Len(filtered_players)
         /\ \A i \in 1..Len(filtered_players) :
              \A c \in DOMAIN filtered_players[i] :
                /\ c \in DOMAIN filtered_players'[i]
                /\ filtered_players'[i][c] = filtered_players[i][c]

(* C10 as stated: a view leaves every existing column of the filtered table  *)
(* as it was (it may add columns), and neither the Filter Stage nor a view   *)
(* changes the memoized player table.                                        *)
C10_AsStated == [][ViewIsPure]_vars

====
